---- MODULE Spec2Model ----
(***************************************************************************)
(* A model of cover_art_hunter.py: the retrying fetch client, the release  *)
(* resolver, the art locator, the image materializer and the batch run of  *)
(* main.  Each fan-out stage is a specification of its own (SpecResolver,  *)
(* SpecLocator, SpecMaterializer), stepping one request attempt at a time; *)
(* SpecRerun calls the materializer a second time on the files the first   *)
(* call left; SpecAlbum drives the three stages for one album, attempt by  *)
(* attempt; SpecMain runs the album pipelines of a batch stage by stage,   *)
(* and FairSpecMain adds the fairness of the event loop.                   *)
(***************************************************************************)
EXTENDS Integers, Sequences, FiniteSets, TLC

VARIABLES
    pc,              \* control state of the function a specification runs
    tasks,           \* the calls a stage has launched, in launch order
    results,         \* what the stage's as_completed loop has collected so far
    ret,             \* the outcome of the function: a returned value or an exception
    total_count,     \* get_release_groups: total_count
    release_groups,  \* get_release_groups: release_groups
    release_ids,     \* get_cover_art_urls: release_ids
    urls,            \* find_image_details: urls
    save_path,       \* find_image_details: save_path
    skip_existing,   \* find_image_details: skip_existing
    fs,              \* the files under save_path: local path -> content
    prev_details,    \* what the earlier calls of find_image_details on these urls returned
    config,          \* main: config
    pipes,           \* main: the process_artist_album tasks, in launch order
    highest_res_images,  \* main: highest_res_images
    summary          \* main: the batch summary file, once written

stageVars == <<pc, tasks, results, ret>>

resolverVars == <<total_count, release_groups>>

locatorVars == <<release_ids>>

materializerVars == <<urls, save_path, skip_existing, fs, prev_details>>

mainVars == <<config, pipes, highest_res_images, summary>>

vars == <<stageVars, resolverVars, locatorVars, materializerVars, mainVars>>

\* the value of a variable the running specification does not use
Unused == << >>

(***************************************************************************)
(* Bounds of the model.                                                    *)
(***************************************************************************)
MaxExtraPages == 2
MaxPageGroups == 1
MaxReleaseIds == 2
MaxUrls == 2
MaxArtists == 2
MaxAlbums == 2
MaxPipelines == 2
MaxAlbumExtraPages == 1

(***************************************************************************)
(* Program constants.                                                      *)
(***************************************************************************)
MaxAttempts == 5
WaitMultiplier == 1
WaitMin == 1
WaitMax == 60
ExpBase == 2
Reraise == TRUE
Limit == 100
HttpOk == 200

(***************************************************************************)
(* Values: Python dicts, outcomes of calls, exceptions.                    *)
(***************************************************************************)
EmptyDict == << >>

Get(d, k, dflt) == IF k \in DOMAIN d THEN d[k] ELSE dflt

None == [kind |-> "none"]

Ret(v) == [kind |-> "ret", val |-> v]

Exc(e) == [kind |-> "exc", exc |-> e]

ClientError == "ClientError"

RetryError == "RetryError"

Min2(a, b) == IF a < b THEN a ELSE b

Max2(a, b) == IF a > b THEN a ELSE b

RECURSIVE Pow(_, _)
Pow(b, n) == IF n = 0 THEN 1 ELSE b * Pow(b, n - 1)

\* the set of the elements of a sequence
Range1(seq) == {seq[k] : k \in 1..Len(seq)}

RECURSIVE Concat(_)
Concat(ss) == IF ss = << >> THEN << >> ELSE Head(ss) \o Concat(Tail(ss))

(***************************************************************************)
(* The retry decorator of fetch_data (tenacity).                           *)
(***************************************************************************)
\* a retry policy that stops one attempt late
StopAfterAttemptLate(attempt_number) == attempt_number > MaxAttempts

\* stop_after_attempt(5): stop once the attempt number reaches 5
StopAfterAttempt(attempt_number) == attempt_number >= MaxAttempts

\* wait_exponential(multiplier=1, min=1, max=60): the delay slept after
\* attempt number attempt_number has failed
WaitExponential(attempt_number) ==
    Max2(Max2(0, WaitMin),
         Min2(WaitMultiplier * Pow(ExpBase, attempt_number - 1), WaitMax))

\* what the decorator raises once it stops: with reraise=True the exception
\* of the last attempt itself, otherwise a RetryError wrapping it
RetryExhausted(last_exc) == IF Reraise THEN last_exc ELSE RetryError

\* A launched call: its argument, its state (ready to attempt, sleeping between
\* attempts, or finished), the upstream answers its attempts got, the delays
\* slept so far and its outcome
NewTask(arg) ==
    [arg |-> arg, st |-> "ready", hist |-> << >>, waits |-> << >>, out |-> None]

\* The decorator around an attempt that raised exc (lines 18-22): stop and
\* raise, or sleep and attempt again
AttemptRaised(t, exc) ==
    LET attempt_number == Len(t.hist) + 1
    IN  IF StopAfterAttempt(attempt_number)
        THEN [t EXCEPT !.st = "done", !.hist = Append(@, "error"),
                       !.out = Exc(RetryExhausted(exc))]
        ELSE [t EXCEPT !.st = "sleeping", !.hist = Append(@, "error"),
                       !.waits = Append(@, WaitExponential(attempt_number))]

\* The decorator around an attempt that returned value: the call returns it
AttemptReturned(t, event, value) ==
    [t EXCEPT !.st = "done", !.hist = Append(@, event), !.out = Ret(value)]

\* a fetch_data that raises on a non-200 status (as raise_for_status would),
\* so that the decorator retries it
FetchDataAttemptRaiseForStatus(t, resp) ==
    IF resp.kind = "response"
    THEN IF resp.status = HttpOk
         THEN AttemptReturned(t, "ok", resp.body)
         ELSE [AttemptRaised(t, ClientError) EXCEPT !.hist = Append(t.hist, "status")]
    ELSE AttemptRaised(t, ClientError)

\* One attempt of the body of fetch_data (lines 29-36) under the decorator.
\* resp is what session.get gave: a response (with its status and, for 200,
\* its JSON body), or an exception raised in the attempt.
FetchDataAttempt(t, resp) ==
    IF resp.kind = "response"
    THEN IF resp.status = HttpOk
         THEN AttemptReturned(t, "ok", resp.body)
         ELSE AttemptReturned(t, "status", EmptyDict)
    ELSE AttemptRaised(t, ClientError)

\* the sleep between two attempts is over
WakeUp(t) == [t EXCEPT !.st = "ready"]

(***************************************************************************)
(* The metadata catalog, as seen by one request.                           *)
(***************************************************************************)
Counts == {p * Limit + d : p \in 0..MaxExtraPages, d \in {0, 1}}

\* a release of the catalog
Release(id, status) == ("id" :> id) @@ ("status" :> status)

\* release group number i of the page at offset: the first group of the
\* first page is an album with an official release, the first group of the
\* second page a single with a promotional release, and the others carry
\* neither a type nor releases
GroupAt(offset, i) ==
    IF i = 1 /\ offset = 0
    THEN ("id" :> <<offset, i>>) @@ ("primary-type" :> "Album")
             @@ ("releases" :> <<Release("r1", "Official")>>)
    ELSE IF i = 1 /\ offset = Limit
    THEN ("id" :> <<offset, i>>) @@ ("primary-type" :> "Single")
             @@ ("releases" :> <<Release("r2", "Promotion")>>)
    ELSE ("id" :> <<offset, i>>)

\* the release groups of the page at offset
PageGroups(offset, k) == [i \in 1..k |-> GroupAt(offset, i)]

CatalogBody(n, offset, k) ==
    ("count" :> n) @@ ("release-groups" :> PageGroups(offset, k))

TransportFailure == [kind |-> "error"]

StatusResponses == {[kind |-> "response", status |-> s] : s \in {404, 503}}

\* what the catalog may answer to the request of a page; the first page
\* reports any count, a later page the count the first one reported; a page
\* holds no more groups than the count leaves from its offset on
CatalogResponses(offset, counts) ==
    {TransportFailure} \cup StatusResponses \cup
    UNION {{[kind |-> "response", status |-> HttpOk,
             body |-> CatalogBody(n, offset, k)] :
               k \in 0..Min2(MaxPageGroups, n - offset)} : n \in counts}

(***************************************************************************)
(* Release Resolver: fetch_release_groups and get_release_groups.          *)
(***************************************************************************)
\* fetch_release_groups (lines 97-106) around the outcome of fetch_data:
\* a RetryError is caught and becomes {}; anything else passes through
FetchReleaseGroups(out) ==
    IF out.kind = "exc" /\ out.exc = RetryError THEN Ret(EmptyDict) ELSE out

\* range(start, stop, step) for step > 0, as a sequence
RECURSIVE Range(_, _, _)
Range(start, stop, step) ==
    IF start >= stop THEN << >> ELSE <<start>> \o Range(start + step, stop, step)

\* a page list that takes the count itself for an offset
PageTasksInclusive(count) ==
    LET offsets == Range(Limit, count + 1, Limit)
    IN  [i \in 1..Len(offsets) |-> NewTask(offsets[i])]

\* a fan-out that always asks for the page at offset 100
PageTasksAtLeastOne(count) ==
    LET offsets == Range(Limit, Max2(count, Limit + 1), Limit)
    IN  [i \in 1..Len(offsets) |-> NewTask(offsets[i])]

\* lines 123-126: one call per remaining offset
PageTasks(count) ==
    LET offsets == Range(Limit, count, Limit)
    IN  [i \in 1..Len(offsets) |-> NewTask(offsets[i])]

\* lines 138-141: the groups of the collected results, appended in turn
MergeResults(groups, collected) ==
    groups \o Concat([i \in 1..Len(collected) |->
                         Get(collected[i], "release-groups", << >>)])

ResolverInit ==
    /\ pc = "initial"
    /\ tasks = <<NewTask(0)>>
    /\ results = << >>
    /\ ret = None
    /\ total_count = 0
    /\ release_groups = << >>
    /\ release_ids = Unused
    /\ urls = Unused /\ save_path = Unused /\ skip_existing = Unused /\ fs = Unused
    /\ prev_details = Unused
    /\ config = Unused /\ pipes = Unused
    /\ highest_res_images = Unused /\ summary = Unused

\* an attempt of the initial call (line 119) that ends it, and lines 120-141
\* up to the first suspension
ResolverInitialAttempt ==
    /\ UNCHANGED <<locatorVars, materializerVars, mainVars>>
    /\ pc = "initial"
    /\ tasks[1].st = "ready"
    /\ \E resp \in CatalogResponses(0, Counts) :
         LET t == FetchDataAttempt(tasks[1], resp)
             out == FetchReleaseGroups(t.out)
         IN  IF t.st # "done"
             THEN /\ tasks' = <<t>>
                  /\ UNCHANGED <<pc, results, ret, total_count, release_groups>>
             ELSE IF out.kind = "exc"
             THEN /\ tasks' = <<t>>
                  /\ pc' = "raised"
                  /\ ret' = out
                  /\ UNCHANGED <<results, total_count, release_groups>>
             ELSE LET count == Get(out.val, "count", 0)
                      groups == Get(out.val, "release-groups", << >>)
                      pages == PageTasks(count)
                  IN  /\ total_count' = count
                      /\ tasks' = <<t>> \o pages
                      /\ results' = << >>
                      /\ IF pages = << >>
                         THEN /\ release_groups' = MergeResults(groups, << >>)
                              /\ pc' = "returned"
                              /\ ret' = Ret(release_groups')
                         ELSE /\ release_groups' = groups
                              /\ pc' = "pages"
                              /\ ret' = ret

\* an attempt of one of the page calls; a call that ends is picked up by the
\* as_completed loop (lines 133-136), and the last one ends the function
ResolverPageAttempt(i) ==
    /\ UNCHANGED <<locatorVars, materializerVars, mainVars>>
    /\ pc = "pages"
    /\ i \in 2..Len(tasks)
    /\ tasks[i].st = "ready"
    /\ \E resp \in CatalogResponses(tasks[i].arg, {total_count}) :
         LET t == FetchDataAttempt(tasks[i], resp)
             out == FetchReleaseGroups(t.out)
         IN  /\ tasks' = [tasks EXCEPT ![i] = t]
             /\ UNCHANGED total_count
             /\ IF t.st # "done"
                THEN UNCHANGED <<pc, results, ret, release_groups>>
                ELSE IF out.kind = "exc"
                THEN /\ pc' = "raised"
                     /\ ret' = out
                     /\ UNCHANGED <<results, release_groups>>
                ELSE /\ results' = Append(results, out.val)
                     /\ IF Len(results') = Len(tasks) - 1
                        THEN /\ release_groups' = MergeResults(release_groups, results')
                             /\ pc' = "returned"
                             /\ ret' = Ret(release_groups')
                        ELSE UNCHANGED <<pc, ret, release_groups>>

\* the backoff sleep of a call ends
ResolverBackoff(i) ==
    /\ pc \in {"initial", "pages"}
    /\ i \in 1..Len(tasks)
    /\ tasks[i].st = "sleeping"
    /\ tasks' = [tasks EXCEPT ![i] = WakeUp(tasks[i])]
    /\ UNCHANGED <<pc, results, ret, total_count, release_groups>>
    /\ UNCHANGED <<locatorVars, materializerVars, mainVars>>

ResolverNext ==
    \/ ResolverInitialAttempt
    \/ \E i \in 1..(MaxExtraPages + 2) : ResolverPageAttempt(i)
    \/ \E i \in 1..(MaxExtraPages + 2) : ResolverBackoff(i)

SpecResolver == ResolverInit /\ [][ResolverNext]_vars

(***************************************************************************)
(* Properties of the fetch client and of the resolver (SpecResolver).      *)
(***************************************************************************)
Exhausted(t) == t.st = "done" /\ t.out.kind = "exc"

CeilDiv(n, d) == (n + d - 1) \div d

RECURSIVE SumLen(_)
SumLen(ss) == IF ss = << >> THEN 0 ELSE Len(Head(ss)) + SumLen(Tail(ss))

\* the release groups each finished call delivered, in launch order
Delivered ==
    [i \in 1..Len(tasks) |->
        IF tasks[i].st = "done" /\ tasks[i].out.kind = "ret"
        THEN Get(tasks[i].out.val, "release-groups", << >>)
        ELSE << >>]

\* the first page has reported a count
CountReported ==
    /\ tasks[1].st = "done"
    /\ tasks[1].out.kind = "ret"
    /\ "count" \in DOMAIN tasks[1].out.val

\* C3: a page request (one of the fan-out pages) that fails at transport level
\* on all its attempts contributes no release group, and the resolve call is
\* not aborted by it: it still returns the groups of the other pages.
C3_FailedPageContributesNothing ==
    \A i \in 2..Len(tasks) :
        Exhausted(tasks[i]) =>
            /\ FetchReleaseGroups(tasks[i].out) = Ret(EmptyDict)
            /\ pc # "raised"

\* C5: in every fetch_data call a non-200 response ends the call with the
\* empty result and no error; it is the call's last attempt (no retry follows
\* it), every attempt before it failed at transport level, and a call whose
\* first attempt got a non-200 response made exactly that one attempt.
C5_NonOkStatusNotRetried ==
    \A i \in 1..Len(tasks) :
        LET t == tasks[i]
        IN  /\ \A k \in 1..Len(t.hist) :
                 t.hist[k] = "status" =>
                     /\ k = Len(t.hist)
                     /\ t.st = "done"
                     /\ t.out = Ret(EmptyDict)
            /\ \A k \in 1..(Len(t.hist) - 1) : t.hist[k] = "error"

C5_Witness ==
    /\ pc = "returned"
    /\ \E i \in 1..Len(tasks) : tasks[i].hist = <<"status">>
    /\ \E i \in 1..Len(tasks) : tasks[i].hist = <<"error", "error", "status">>

\* C6: a fetch_data call makes at most 5 attempts; attempt k+1 follows only a
\* failed attempt k and a backoff delay; the delays are 1 second, then double
\* each time, and never exceed 60 seconds; when all 5 attempts fail the call
\* ends with an error raised to its caller; an attempt that gets a response
\* ends the call with a returned value.
C6_RetryPolicy ==
    \A i \in 1..Len(tasks) :
        LET t == tasks[i]
            n == Len(t.hist)
        IN  /\ n <= 5
            /\ \A k \in 1..(n - 1) : t.hist[k] = "error"
            /\ Len(t.waits) = IF t.st = "done" THEN n - 1 ELSE n
            /\ \A k \in 1..Len(t.waits) :
                 /\ t.waits[k] = IF k = 1 THEN 1 ELSE 2 * t.waits[k - 1]
                 /\ t.waits[k] <= 60
            /\ (n = 5 /\ t.hist[n] = "error") => Exhausted(t)
            /\ Exhausted(t) => (n = 5 /\ t.hist[n] = "error")
            /\ (n > 0 /\ t.hist[n] # "error") => (t.st = "done" /\ t.out.kind = "ret")
            /\ (n > 0 /\ n < 5 /\ t.hist[n] = "error") => t.st \in {"sleeping", "ready"}

C6_Witness ==
    /\ \E i \in 1..Len(tasks) :
         Exhausted(tasks[i]) /\ tasks[i].waits = <<1, 2, 4, 8>>
    /\ \E i \in 1..Len(tasks) :
         tasks[i].hist = <<"error", "error", "error", "error", "ok">>

ReleaseIdSet == {"r1", "r2"}

\* sequences over S of length at most n
SeqsUpTo(S, n) == UNION {[1..k -> S] : k \in 0..n}

\* a URL is the sequence of its path components
ArtUrl(release_id, name) == <<"release", release_id, name>>

ImageEntry(url, types) == ("image" :> url) @@ ("types" :> types)

\* the image lists the archive may hold for a release: none, a front cover,
\* a back and a front cover, and entries without image, types or "Front"
ArtImageLists(release_id) ==
    { << >>,
      <<ImageEntry(ArtUrl(release_id, "front.jpg"), <<"Front">>)>>,
      <<ImageEntry(ArtUrl(release_id, "back.jpg"), <<"Back">>),
        ImageEntry(ArtUrl(release_id, "front.jpg"), <<"Booklet", "Front">>)>>,
      <<("types" :> <<"Front">>),
        ImageEntry(ArtUrl(release_id, "back.jpg"), << >>),
        ("image" :> ArtUrl(release_id, "front.jpg"))>> }

ArtBody(images) == ("images" :> images)

ArtResponses(release_id) ==
    {TransportFailure} \cup StatusResponses \cup
    {[kind |-> "response", status |-> HttpOk, body |-> ArtBody(images)] :
        images \in ArtImageLists(release_id)}

(***************************************************************************)
(* Art Locator: fetch_cover_art_urls and get_cover_art_urls.               *)
(***************************************************************************)
\* a filter that looks at the first type of an image only
IsFrontImageFirstType(image) ==
    /\ "image" \in DOMAIN image
    /\ "types" \in DOMAIN image
    /\ image["types"] # << >>
    /\ image["types"][1] = "Front"

\* line 154: "image" in image and image.get("types") and "Front" in image["types"]
IsFrontImage(image) ==
    /\ "image" \in DOMAIN image
    /\ "types" \in DOMAIN image
    /\ image["types"] # << >>
    /\ \E j \in 1..Len(image["types"]) : image["types"][j] = "Front"

\* lines 151-155
RECURSIVE FrontUrls(_)
FrontUrls(images) ==
    IF images = << >> THEN << >>
    ELSE (IF IsFrontImage(Head(images)) THEN <<Head(images)["image"]>> ELSE << >>)
         \o FrontUrls(Tail(images))

\* a fetch_cover_art_urls that reads data["images"] where the code reads
\* data.get("images", []): an answer without images raises
FetchCoverArtUrlsStrict(release_id, out) ==
    IF out.kind = "exc"
    THEN IF out.exc = RetryError THEN Ret(<<release_id, << >>>>) ELSE out
    ELSE IF "images" \in DOMAIN out.val
         THEN Ret(<<release_id, FrontUrls(out.val["images"])>>)
         ELSE Exc("KeyError")

\* fetch_cover_art_urls (lines 147-158) around the outcome of fetch_data: a
\* RetryError is caught and becomes (release_id, []); another exception
\* passes through
FetchCoverArtUrls(release_id, out) ==
    IF out.kind = "exc"
    THEN IF out.exc = RetryError THEN Ret(<<release_id, << >>>>) ELSE out
    ELSE Ret(<<release_id, FrontUrls(Get(out.val, "images", << >>))>>)

LocatorInit ==
    /\ release_ids \in SeqsUpTo(ReleaseIdSet, MaxReleaseIds)
    /\ pc = "locating"
    /\ tasks = [i \in 1..Len(release_ids) |-> NewTask(release_ids[i])]
    /\ results = << >>
    /\ ret = None
    /\ total_count = Unused /\ release_groups = Unused
    /\ urls = Unused /\ save_path = Unused /\ skip_existing = Unused /\ fs = Unused
    /\ prev_details = Unused
    /\ config = Unused /\ pipes = Unused
    /\ highest_res_images = Unused /\ summary = Unused

\* an attempt of the query of one release id; a query that ends is picked up
\* by the as_completed loop (lines 176-179)
LocatorAttempt(i) ==
    /\ UNCHANGED <<resolverVars, locatorVars, materializerVars, mainVars>>
    /\ pc = "locating"
    /\ i \in 1..Len(tasks)
    /\ tasks[i].st = "ready"
    /\ \E resp \in ArtResponses(tasks[i].arg) :
         LET t == FetchDataAttempt(tasks[i], resp)
             out == FetchCoverArtUrls(t.arg, t.out)
         IN  /\ tasks' = [tasks EXCEPT ![i] = t]
             /\ IF t.st # "done"
                THEN UNCHANGED <<pc, results, ret>>
                ELSE IF out.kind = "exc"
                THEN /\ pc' = "raised"
                     /\ ret' = out
                     /\ UNCHANGED results
                ELSE /\ results' = Append(results, out.val)
                     /\ UNCHANGED <<pc, ret>>

LocatorBackoff(i) ==
    /\ UNCHANGED <<resolverVars, locatorVars, materializerVars, mainVars>>
    /\ pc = "locating"
    /\ i \in 1..Len(tasks)
    /\ tasks[i].st = "sleeping"
    /\ tasks' = [tasks EXCEPT ![i] = WakeUp(tasks[i])]
    /\ UNCHANGED <<pc, results, ret>>

\* a get_cover_art_urls that returns with the first result it collected
LocatorReturnEarly ==
    /\ UNCHANGED <<resolverVars, locatorVars, materializerVars, mainVars>>
    /\ pc = "locating"
    /\ Len(results) >= Min2(1, Len(tasks))
    /\ pc' = "returned"
    /\ ret' = Ret(results)
    /\ UNCHANGED <<tasks, results>>

\* line 181: every query has been collected
LocatorReturn ==
    /\ UNCHANGED <<resolverVars, locatorVars, materializerVars, mainVars>>
    /\ pc = "locating"
    /\ Len(results) = Len(tasks)
    /\ pc' = "returned"
    /\ ret' = Ret(results)
    /\ UNCHANGED <<tasks, results>>

LocatorNext ==
    \/ \E i \in 1..(MaxReleaseIds + 1) : LocatorAttempt(i)
    \/ \E i \in 1..(MaxReleaseIds + 1) : LocatorBackoff(i)
    \/ LocatorReturn

SpecLocator == LocatorInit /\ [][LocatorNext]_vars

(***************************************************************************)
(* Properties of the locator (SpecLocator).                                *)
(***************************************************************************)
\* C4: a release id whose query fails at transport level on all its attempts
\* yields the pair (release_id, []); the locate call does not fail, and it
\* returns one result per release id.
C4_FailedReleaseYieldsEmptyList ==
    /\ \A i \in 1..Len(tasks) :
         Exhausted(tasks[i]) =>
             /\ FetchCoverArtUrls(tasks[i].arg, tasks[i].out)
                    = Ret(<<tasks[i].arg, << >>>>)
             /\ pc # "raised"
    /\ pc = "returned" => Len(ret.val) = Len(release_ids)

\* the entries of an image list that have an image and the type "Front"
FrontIndexes(images) ==
    {j \in 1..Len(images) :
        /\ "image" \in DOMAIN images[j]
        /\ "types" \in DOMAIN images[j]
        /\ "Front" \in Range1(images[j]["types"])}

\* us holds the image values of exactly the entries idx, in their order
IsSelection(us, images, idx) ==
    /\ Len(us) = Cardinality(idx)
    /\ \E f \in [1..Len(us) -> idx] :
         /\ \A k \in 1..(Len(us) - 1) : f[k] < f[k + 1]
         /\ \A k \in 1..Len(us) : us[k] = images[f[k]]["image"]

\* C13: for every answer of the art archive to the query of a release id,
\* the URL list collected for that id holds exactly the image values of the
\* entries that have an image field and "Front" among their types, in the
\* order of the response; every other entry is left out.
C13_ExactlyFrontImages ==
    \A i \in 1..Len(tasks) :
        (tasks[i].st = "done" /\ tasks[i].out.kind = "ret") =>
            LET images == Get(tasks[i].out.val, "images", << >>)
            IN  \E k \in 1..Len(results) :
                  /\ results[k][1] = tasks[i].arg
                  /\ IsSelection(results[k][2], images, FrontIndexes(images))

C13_Witness ==
    /\ pc = "returned"
    /\ \E i \in 1..Len(tasks), k \in 1..Len(results) :
         /\ tasks[i].out.kind = "ret"
         /\ Len(Get(tasks[i].out.val, "images", << >>)) = 2
         /\ results[k] = <<tasks[i].arg, <<ArtUrl(tasks[i].arg, "front.jpg")>>>>
    /\ \E i \in 1..Len(tasks), k \in 1..Len(results) :
         /\ tasks[i].out.kind = "ret"
         /\ Len(Get(tasks[i].out.val, "images", << >>)) = 3
         /\ results[k] = <<tasks[i].arg, << >>>>

(***************************************************************************)
(* Images: URLs, payloads, local files.                                    *)
(***************************************************************************)
\* the URLs handed to the materializer; two of them share their basename
ImageUrlSet ==
    {ArtUrl("r1", "front.jpg"), ArtUrl("r2", "front.jpg"), ArtUrl("r1", "back.jpg")}

\* os.path.basename(url): the last path component
Basename(url) == url[Len(url)]

\* os.path.join(path, name)
Join(path, name) == Append(path, name)

\* save_path = None
NoPath == << >>

\* os.path.join(output_dir, artist, album) of the album being materialized
AlbumDir == <<"out", "A", "x">>

ImageOf(size) == [kind |-> "image", size |-> size]

Garbage == [kind |-> "garbage"]

\* the sizes (width, height) of the images the archive serves
ImageSizes == {<<1, 2>>, <<2, 1>>, <<2, 2>>}

\* what a GET of an image URL may give: an exception, or a response whose
\* body is an image or not one (the status is not looked at, lines 66-67)
ImageResponses ==
    {TransportFailure} \cup
    {[kind |-> "response", status |-> HttpOk, body |-> b] :
        b \in {ImageOf(size) : size \in ImageSizes} \cup {Garbage}}

\* the files a save_path may hold before the run: for each local path
\* nothing, an image saved earlier, or a file that is no image
CachedFiles == {ImageOf(<<3, 1>>), Garbage}

LocalPaths(dir) == {Join(dir, Basename(url)) : url \in ImageUrlSet}

InitialFiles(dir) ==
    UNION {[P -> CachedFiles] : P \in SUBSET LocalPaths(dir)}

\* os.path.exists(path)
Exists(files, path) == path \in DOMAIN files

\* image.save(path)
Save(files, path, image) == (path :> image) @@ files

(***************************************************************************)
(* Image Materializer: fetch_image_details and find_image_details.         *)
(***************************************************************************)
ImageError == "UnidentifiedImageError"

NewImageTask(url) ==
    [arg |-> url, st |-> "ready", hist |-> << >>, waits |-> << >>, out |-> None,
     gets |-> 0]

\* lines 51-53
LocalPath(url, save) == IF save # NoPath THEN Join(save, Basename(url)) ELSE NoPath

\* the dict of lines 58-63 and 72-77
Detail(url, size, local_path) ==
    [url |-> url, dimensions |-> size, resolution |-> size[1] * size[2],
     local_path |-> local_path]

\* An attempt of fetch_image_details up to its first suspension (lines
\* 51-66): the cached file is measured and the call returns, or opening it
\* raises (outside the try, so the decorator sees it), or the GET is issued.
FetchImageStart(t, save, skip, files) ==
    LET local_path == LocalPath(t.arg, save)
    IN  IF save # NoPath /\ skip /\ Exists(files, local_path)
        THEN IF files[local_path].kind = "image"
             THEN AttemptReturned(t, "cached",
                                  Detail(t.arg, files[local_path].size, local_path))
             ELSE AttemptRaised(t, ImageError)
        ELSE [t EXCEPT !.st = "fetching", !.gets = @ + 1]

\* The rest of the attempt once session.get has answered (lines 66-80): any
\* exception, of the GET, the decoding or the saving, is caught and the call
\* returns {}. Gives the task and the files afterwards.
FetchImageResponse(t, resp, save, skip, files) ==
    LET local_path == LocalPath(t.arg, save)
    IN  IF resp.kind # "response"
        THEN [task |-> AttemptReturned(t, "get_failed", EmptyDict), files |-> files]
        ELSE IF resp.body.kind # "image"
        THEN [task |-> AttemptReturned(t, "undecodable", EmptyDict), files |-> files]
        ELSE [task |-> AttemptReturned(t, "ok",
                                       Detail(t.arg, resp.body.size, local_path)),
              files |-> IF save # NoPath /\ ~(skip /\ Exists(files, local_path))
                        THEN Save(files, local_path, resp.body)
                        ELSE files]

\* line 206
RECURSIVE Valid(_)
Valid(details) ==
    IF details = << >> THEN << >>
    ELSE (IF Head(details) # EmptyDict THEN <<Head(details)>> ELSE << >>)
         \o Valid(Tail(details))

\* d put behind every element of a descending list that is not smaller
RECURSIVE InsertDesc(_, _)
InsertDesc(d, sorted) ==
    IF sorted = << >> THEN <<d>>
    ELSE IF Head(sorted).resolution >= d.resolution
         THEN <<Head(sorted)>> \o InsertDesc(d, Tail(sorted))
         ELSE <<d>> \o sorted

\* a ranking that leaves the details in the order they were collected
Unsorted(details) == details

\* lines 207-209: sorted(..., key=resolution, reverse=True); the sort is
\* stable, equal resolutions keep the order they have in details
RECURSIVE SortedDesc(_)
SortedDesc(details) ==
    IF details = << >> THEN << >>
    ELSE InsertDesc(details[Len(details)],
                    SortedDesc(SubSeq(details, 1, Len(details) - 1)))

MaterializerInit ==
    /\ urls \in SeqsUpTo(ImageUrlSet, MaxUrls) \ {<< >>}
    /\ save_path \in {NoPath, AlbumDir}
    /\ skip_existing \in BOOLEAN
    /\ fs \in IF save_path = NoPath THEN {<< >>} ELSE InitialFiles(save_path)
    /\ prev_details = << >>
    /\ pc = "materializing"
    /\ tasks = [i \in 1..Len(urls) |-> NewImageTask(urls[i])]
    /\ results = << >>
    /\ ret = None
    /\ total_count = Unused /\ release_groups = Unused
    /\ release_ids = Unused
    /\ config = Unused /\ pipes = Unused
    /\ highest_res_images = Unused /\ summary = Unused

\* a call that has ended is picked up by the as_completed loop (lines
\* 201-204); its exception leaves find_image_details
MaterializerCollect(t) ==
    IF t.st # "done"
    THEN UNCHANGED <<pc, results, ret>>
    ELSE IF t.out.kind = "exc"
    THEN /\ pc' = "raised"
         /\ ret' = t.out
         /\ UNCHANGED results
    ELSE /\ results' = Append(results, t.out.val)
         /\ UNCHANGED <<pc, ret>>

\* as_completed schedules every call at once (line 201): each runs up to its
\* first suspension before the answer to any GET can be delivered
AllStarted ==
    \A k \in 1..Len(tasks) : ~(tasks[k].st = "ready" /\ tasks[k].hist = << >>)

MaterializerStart(i) ==
    /\ UNCHANGED <<resolverVars, locatorVars, mainVars>>
    /\ pc = "materializing"
    /\ i \in 1..Len(tasks)
    /\ tasks[i].st = "ready"
    /\ LET t == FetchImageStart(tasks[i], save_path, skip_existing, fs)
       IN  /\ tasks' = [tasks EXCEPT ![i] = t]
           /\ MaterializerCollect(t)
    /\ UNCHANGED materializerVars

MaterializerResponse(i) ==
    /\ UNCHANGED <<resolverVars, locatorVars, mainVars>>
    /\ pc = "materializing"
    /\ i \in 1..Len(tasks)
    /\ tasks[i].st = "fetching"
    /\ AllStarted
    /\ \E resp \in ImageResponses :
         LET r == FetchImageResponse(tasks[i], resp, save_path, skip_existing, fs)
         IN  /\ tasks' = [tasks EXCEPT ![i] = r.task]
             /\ fs' = r.files
             /\ MaterializerCollect(r.task)
    /\ UNCHANGED <<urls, save_path, skip_existing, prev_details>>

MaterializerBackoff(i) ==
    /\ UNCHANGED <<resolverVars, locatorVars, materializerVars, mainVars>>
    /\ pc = "materializing"
    /\ i \in 1..Len(tasks)
    /\ tasks[i].st = "sleeping"
    /\ tasks' = [tasks EXCEPT ![i] = WakeUp(tasks[i])]
    /\ UNCHANGED <<pc, results, ret>>

\* lines 206-210: every call has been collected
MaterializerReturn ==
    /\ UNCHANGED <<resolverVars, locatorVars, materializerVars, mainVars>>
    /\ pc = "materializing"
    /\ Len(results) = Len(tasks)
    /\ pc' = "returned"
    /\ ret' = Ret(SortedDesc(Valid(results)))
    /\ UNCHANGED <<tasks, results>>

\* find_image_details is called once more with the same arguments (the
\* program is run again on the same output directory): lines 193-199
MaterializerRerun ==
    /\ UNCHANGED <<resolverVars, locatorVars, mainVars>>
    /\ pc = "returned"
    /\ prev_details = << >>
    /\ prev_details' = <<ret.val>>
    /\ pc' = "materializing"
    /\ tasks' = [i \in 1..Len(urls) |-> NewImageTask(urls[i])]
    /\ results' = << >>
    /\ ret' = None
    /\ UNCHANGED <<urls, save_path, skip_existing, fs>>

MaterializerNext ==
    \/ \E i \in 1..(MaxUrls + 1) : MaterializerStart(i)
    \/ \E i \in 1..(MaxUrls + 1) : MaterializerResponse(i)
    \/ \E i \in 1..(MaxUrls + 1) : MaterializerBackoff(i)
    \/ MaterializerReturn

SpecMaterializer == MaterializerInit /\ [][MaterializerNext]_vars

\* the materializer, run a second time on what the first run left on disk
RerunNext == MaterializerNext \/ MaterializerRerun

SpecRerun == MaterializerInit /\ [][RerunNext]_vars

(***************************************************************************)
(* Properties of the materializer (SpecMaterializer).                      *)
(***************************************************************************)
\* the details of the calls that ended with one, in the order of the URLs
InputOrderDetails ==
    Valid([i \in 1..Len(tasks) |->
              IF tasks[i].st = "done" /\ tasks[i].out.kind = "ret"
              THEN tasks[i].out.val ELSE EmptyDict])

\* C7: what find_image_details returns does not depend on the order in which
\* the downloads completed: the images are in descending order of resolution
\* and images of equal resolution are in the order of their URLs in the input.
C7_OrderIndependentOfCompletion ==
    pc = "returned" => ret.val = SortedDesc(InputOrderDetails)

\* C8: a failure while handling one URL (a failed download, an undecodable
\* payload, a cached file that cannot be opened) never makes
\* find_image_details fail: the URL contributes no detail and the details of
\* the other URLs are returned.
C8_SingleUrlFailureDropped ==
    /\ pc # "raised"
    /\ pc = "returned" =>
          /\ Len(ret.val) = Len(InputOrderDetails)
          /\ \A i \in 1..Len(InputOrderDetails) :
               \E j \in 1..Len(ret.val) : ret.val[j] = InputOrderDetails[i]

\* C9: a URL is dropped for a transport failure of its GET only after the
\* GET has been attempted 5 times.
C9_DownloadRetried ==
    \A i \in 1..Len(tasks) :
        (tasks[i].st = "done" /\ tasks[i].hist[Len(tasks[i].hist)] = "get_failed")
            => tasks[i].gets = MaxAttempts

\* the call of a URL ended with the detail of an image it decoded, from the
\* answer to its GET or from the cached file
Decoded(t) ==
    /\ t.st = "done"
    /\ t.out.kind = "ret"
    /\ t.hist[Len(t.hist)] \in {"ok", "cached"}

\* C11: in every list find_image_details returns, the resolutions never
\* increase along the list, and every element is the non-empty detail of an
\* image that was decoded for one of the URLs, its resolution being width
\* times height; no empty placeholder of a failed URL is in the list.
C11_RankedAndNonEmpty ==
    pc = "returned" =>
        /\ \A j \in 1..(Len(ret.val) - 1) :
             ret.val[j].resolution >= ret.val[j + 1].resolution
        /\ \A j \in 1..Len(ret.val) :
             /\ ret.val[j] # EmptyDict
             /\ \E i \in 1..Len(tasks) :
                  Decoded(tasks[i]) /\ tasks[i].out.val = ret.val[j]
             /\ ret.val[j].resolution
                    = ret.val[j].dimensions[1] * ret.val[j].dimensions[2]

C11_Witness ==
    /\ pc = "returned"
    /\ Len(ret.val) = 2
    /\ ret.val[1].resolution > ret.val[2].resolution
    /\ results = <<ret.val[2], ret.val[1]>>

\* a step in which the call of URL number i runs from its start
StartsOnCachedFile(i) ==
    /\ pc = "materializing"
    /\ i \in 1..Len(tasks)
    /\ tasks[i].st = "ready"
    /\ tasks'[i] # tasks[i]
    /\ save_path # NoPath
    /\ skip_existing
    /\ Exists(fs, LocalPath(tasks[i].arg, save_path))

\* no URL is given twice
DistinctUrls == \A i, k \in 1..Len(urls) : i # k => urls[i] # urls[k]

\* C12: when save_path is set, skip_existing is true and a file exists at
\* save_path/basename(url), materializing the URL issues no GET, leaves the
\* files as they are and returns the detail with the dimensions of that file
\* and its path; and a second call over a set of URLs that the first call all
\* delivered returns the same details and issues no GET.
C12_CacheHitAndRerun ==
    /\ [][\A i \in 1..Len(tasks) :
            StartsOnCachedFile(i) =>
                LET local_path == LocalPath(tasks[i].arg, save_path)
                IN  /\ fs' = fs
                    /\ tasks'[i].gets = 0
                    /\ tasks'[i].st = "done"
                    /\ fs[local_path].kind = "image"
                    /\ tasks'[i].out =
                           Ret(Detail(tasks[i].arg, fs[local_path].size, local_path))]_vars
    /\ [](  (/\ pc = "returned"
             /\ prev_details # << >>
             /\ save_path # NoPath
             /\ skip_existing
             /\ DistinctUrls
             /\ Len(prev_details[1]) = Len(urls))
          => (/\ Range1(ret.val) = Range1(prev_details[1])
              /\ \A i \in 1..Len(tasks) : tasks[i].gets = 0))

\* C20: for every detail one call with save_path set returns for pairwise
\* distinct URLs, the file kept at the detail's local_path is the image the
\* detail describes for its own url, whatever the order in which the
\* downloads completed, URLs with the same basename included.
C20_OwnImagePerUrl ==
    (/\ pc = "returned"
     /\ save_path # NoPath
     /\ DistinctUrls)
    => \A j \in 1..Len(ret.val) :
         /\ Exists(fs, ret.val[j].local_path)
         /\ fs[ret.val[j].local_path].kind = "image"
         /\ fs[ret.val[j].local_path].size = ret.val[j].dimensions

(***************************************************************************)
(* Calls run to their end: the outcome of a whole call, given what the     *)
(* server answers to its successive attempts.                              *)
(***************************************************************************)
\* fetch_data run to its end; script holds the answers to the successive
\* attempts, the last one repeated as often as needed
RECURSIVE RunFetchData(_, _)
RunFetchData(t, script) ==
    LET after == FetchDataAttempt(t, Head(script))
    IN  IF after.st = "done" THEN after
        ELSE RunFetchData(WakeUp(after),
                          IF Len(script) > 1 THEN Tail(script) ELSE script)

\* a server that answers the first attempt, one that answers the second, and
\* one that cannot be reached at all
Scripts(responses) ==
    {<<r>> : r \in responses} \cup {<<TransportFailure, r>> : r \in responses}

\* the outcomes fetch_data can end with, for a server with these responses
FetchDataOutcomes(responses) ==
    {RunFetchData(NewTask(0), script).out : script \in Scripts(responses)}

\* the loop of lines 133-136 (and 176-179, 201-204) over calls that ended
\* with outs, awaited in the order they completed: the first exception met
\* leaves the loop, otherwise the values are collected in that order
Collected(outs, order) ==
    LET n == Len(outs)
        raised == {k \in 1..n : outs[order[k]].kind = "exc"}
    IN  IF raised # {}
        THEN outs[order[CHOOSE k \in raised : \A l \in raised : k <= l]]
        ELSE Ret([k \in 1..n |-> outs[order[k]].val])

(***************************************************************************)
(* process_artist_album and main.                                          *)
(***************************************************************************)
\* None, for an optional filter
NoFilter == ""

ArtistName(i) == "artist" \o ToString(i)

AlbumName(j) == "album" \o ToString(j)

\* the (artist, album) pairs of a configuration, in request order
Pairs(artists_albums) ==
    Concat([i \in 1..Len(artists_albums) |->
               [j \in 1..Len(artists_albums[i].albums) |->
                   <<artists_albums[i].artist, artists_albums[i].albums[j]>>]])

\* well-formed configurations: some artists, each with one album or more
Configs ==
    LET lists == UNION {
            {[i \in 1..n |->
                 [artist |-> ArtistName(i),
                  albums |-> [j \in 1..counts[i] |-> AlbumName(j)]]] :
                counts \in [1..n -> 1..MaxAlbums]} : n \in 0..MaxArtists}
    IN  {[artists_albums |-> aa, release_type |-> rt, status |-> s,
          save_images |-> FALSE, output_dir |-> <<"out">>, skip_existing |-> TRUE] :
            aa \in {l \in lists : Len(Pairs(l)) <= MaxPipelines},
            rt \in {NoFilter, "Album"}, s \in {NoFilter, "Official"}}

\* the catalog of the batch runs: an album matches no release group, or one
\* release group with one release
ReleaseOf(artist, album) ==
    ("id" :> (artist \o "/" \o album)) @@ ("status" :> "Official")

GroupOf(artist, album) ==
    ("id" :> <<artist, album>>) @@ ("primary-type" :> "Album")
        @@ ("releases" :> <<ReleaseOf(artist, album)>>)

AlbumCatalogResponses(artist, album) ==
    {TransportFailure} \cup StatusResponses \cup
    {[kind |-> "response", status |-> HttpOk, body |-> b] :
        b \in {("count" :> 0) @@ ("release-groups" :> << >>),
               ("count" :> 1) @@ ("release-groups" :> <<GroupOf(artist, album)>>)}}

\* lines 236-239
RECURSIVE FilterType(_, _)
FilterType(groups, release_type) ==
    IF groups = << >> THEN << >>
    ELSE (IF release_type = NoFilter
             \/ Get(Head(groups), "primary-type", NoFilter) = release_type
          THEN <<Head(groups)>> ELSE << >>)
         \o FilterType(Tail(groups), release_type)

\* a listing of the release ids that does not look at the status
ReleaseIdsOfAnyStatus(releases, status) ==
    [r \in 1..Len(releases) |-> releases[r]["id"]]

\* lines 246-251, for one release group
RECURSIVE ReleaseIdsOf(_, _)
ReleaseIdsOf(releases, status) ==
    IF releases = << >> THEN << >>
    ELSE (IF status = NoFilter \/ Get(Head(releases), "status", NoFilter) = status
          THEN <<Head(releases)["id"]>> ELSE << >>)
         \o ReleaseIdsOf(Tail(releases), status)

\* lines 246-251
ReleaseIds(groups, status) ==
    Concat([g \in 1..Len(groups) |->
               ReleaseIdsOf(Get(groups[g], "releases", << >>), status)])

\* line 257
AllCoverArtUrls(cover_art_results) ==
    Concat([k \in 1..Len(cover_art_results) |-> cover_art_results[k][2]])

\* a process_artist_album task: the stage it is at (or "done"), what it
\* carries from stage to stage, the metadata it saved and its outcome
NewPipe(pair) ==
    [artist |-> pair[1], album |-> pair[2], st |-> "resolve",
     release_ids |-> << >>, urls |-> << >>, cover_art_images |-> << >>,
     out |-> None]

PipeDone(pipe, out) == [pipe EXCEPT !.st = "done", !.out = out]

MainInit ==
    /\ config \in Configs
    /\ pipes = [p \in 1..Len(Pairs(config.artists_albums)) |->
                   NewPipe(Pairs(config.artists_albums)[p])]
    /\ highest_res_images = << >>
    /\ summary = None
    /\ pc = "gather"
    /\ ret = None
    /\ tasks = Unused /\ results = Unused
    /\ total_count = Unused /\ release_groups = Unused
    /\ release_ids = Unused
    /\ urls = Unused /\ save_path = Unused /\ skip_existing = Unused /\ fs = Unused
    /\ prev_details = Unused

\* lines 233-251: get_release_groups run to its end, the filters, the ids
PipeResolve(p) ==
    /\ UNCHANGED <<tasks, results, ret, resolverVars, locatorVars, materializerVars>>
    /\ UNCHANGED <<config, highest_res_images, summary, pc>>
    /\ pc \in {"gather", "raised"}
    /\ p \in 1..Len(pipes)
    /\ pipes[p].st = "resolve"
    /\ LET answers == AlbumCatalogResponses(pipes[p].artist, pipes[p].album)
       IN  \E fd \in FetchDataOutcomes(answers) :
             LET first == FetchReleaseGroups(fd)
                 pages == IF first.kind = "ret"
                          THEN PageTasks(Get(first.val, "count", 0)) ELSE << >>
             IN  \E fds \in [1..Len(pages) -> FetchDataOutcomes(answers)] :
                  \E order \in Permutations(1..Len(pages)) :
                    LET rest == Collected([k \in 1..Len(pages) |->
                                              FetchReleaseGroups(fds[k])], order)
                        got == IF first.kind = "exc" THEN first
                               ELSE IF rest.kind = "exc" THEN rest
                               ELSE Ret(MergeResults(
                                        Get(first.val, "release-groups", << >>),
                                        rest.val))
                        groups == FilterType(got.val, config.release_type)
                    IN  pipes' = [pipes EXCEPT ![p] =
                            IF got.kind = "exc" THEN PipeDone(@, got)
                            ELSE IF groups = << >> THEN PipeDone(@, Ret(EmptyDict))
                            ELSE [@ EXCEPT !.st = "locate",
                                           !.release_ids =
                                               ReleaseIds(groups, config.status)]]

\* lines 253-261: get_cover_art_urls run to its end, the URL list
PipeLocate(p) ==
    /\ UNCHANGED <<tasks, results, ret, resolverVars, locatorVars, materializerVars>>
    /\ UNCHANGED <<config, highest_res_images, summary, pc>>
    /\ pc \in {"gather", "raised"}
    /\ p \in 1..Len(pipes)
    /\ pipes[p].st = "locate"
    /\ LET ids == pipes[p].release_ids
       IN  \E fds \in [1..Len(ids) -> UNION {FetchDataOutcomes(ArtResponses(ids[k])) :
                                               k \in 1..Len(ids)}] :
             \E order \in Permutations(1..Len(ids)) :
               /\ \A k \in 1..Len(ids) : fds[k] \in FetchDataOutcomes(ArtResponses(ids[k]))
               /\ LET got == Collected([k \in 1..Len(ids) |->
                                           FetchCoverArtUrls(ids[k], fds[k])], order)
                      all_cover_art_urls == AllCoverArtUrls(got.val)
                  IN  pipes' = [pipes EXCEPT ![p] =
                          IF got.kind = "exc" THEN PipeDone(@, got)
                          ELSE IF all_cover_art_urls = << >>
                          THEN PipeDone(@, Ret(EmptyDict))
                          ELSE [@ EXCEPT !.st = "materialize",
                                         !.urls = all_cover_art_urls]]

\* fetch_image_details run to its end without save_path: the GET and its answer
FetchImageOutcomes(url) ==
    {FetchImageResponse(FetchImageStart(NewImageTask(url), NoPath, TRUE, << >>),
                        resp, NoPath, TRUE, << >>).task.out :
        resp \in ImageResponses}

\* lines 263-289: find_image_details run to its end, the saved metadata and
\* the winner
PipeMaterialize(p) ==
    /\ UNCHANGED <<tasks, results, ret, resolverVars, locatorVars, materializerVars>>
    /\ UNCHANGED <<config, highest_res_images, summary, pc>>
    /\ pc \in {"gather", "raised"}
    /\ p \in 1..Len(pipes)
    /\ pipes[p].st = "materialize"
    /\ LET us == pipes[p].urls
       IN  \E outs \in [1..Len(us) -> UNION {FetchImageOutcomes(us[k]) :
                                               k \in 1..Len(us)}] :
             \E order \in Permutations(1..Len(us)) :
               /\ \A k \in 1..Len(us) : outs[k] \in FetchImageOutcomes(us[k])
               /\ LET got == Collected(outs, order)
                      sorted_image_details == SortedDesc(Valid(got.val))
                  IN  pipes' = [pipes EXCEPT ![p] =
                          IF got.kind = "exc" THEN PipeDone(@, got)
                          ELSE [PipeDone(@, Ret(IF sorted_image_details # << >>
                                                THEN sorted_image_details[1]
                                                ELSE EmptyDict))
                                EXCEPT !.cover_art_images = sorted_image_details]]

\* line 325: gather passes on the first exception of a task
MainGatherRaises ==
    /\ UNCHANGED <<tasks, results, resolverVars, locatorVars, materializerVars>>
    /\ UNCHANGED <<config, pipes, highest_res_images, summary>>
    /\ pc = "gather"
    /\ \E p \in 1..Len(pipes) :
         /\ pipes[p].st = "done"
         /\ pipes[p].out.kind = "exc"
         /\ ret' = pipes[p].out
    /\ pc' = "raised"

CancelledError == "CancelledError"

\* line 440: main has ended with the exception; asyncio.run cancels the
\* tasks that are still running and ends with the exception of main
RunCancelsTasks ==
    /\ UNCHANGED <<tasks, results, ret, resolverVars, locatorVars, materializerVars>>
    /\ UNCHANGED <<config, highest_res_images, summary>>
    /\ pc = "raised"
    /\ pipes' = [p \in 1..Len(pipes) |->
                    IF pipes[p].st # "done"
                    THEN PipeDone(pipes[p], Exc(CancelledError))
                    ELSE pipes[p]]
    /\ pc' = "exited"

\* lines 327-337: zip(results, artists_albums) and the loop over the albums
Aggregate(task_results, artists_albums) ==
    Concat([k \in 1..Min2(Len(task_results), Len(artists_albums)) |->
               IF task_results[k] # EmptyDict
               THEN [j \in 1..Len(artists_albums[k].albums) |->
                        [artist |-> artists_albums[k].artist,
                         album |-> artists_albums[k].albums[j],
                         highest_resolution_image |-> task_results[k]]]
               ELSE << >>])

\* lines 325-345: every task has returned; the winners are aggregated and
\* the summary is written
MainAggregate ==
    /\ UNCHANGED <<tasks, results, resolverVars, locatorVars, materializerVars>>
    /\ UNCHANGED <<config, pipes>>
    /\ pc = "gather"
    /\ \A p \in 1..Len(pipes) : pipes[p].st = "done" /\ pipes[p].out.kind = "ret"
    /\ highest_res_images' =
           Aggregate([p \in 1..Len(pipes) |-> pipes[p].out.val],
                     config.artists_albums)
    /\ summary' = IF highest_res_images' # << >>
                  THEN [dir |-> Join(config.output_dir,
                                     config.artists_albums[1].artist),
                        data |-> highest_res_images']
                  ELSE summary
    /\ pc' = "done"
    /\ ret' = Ret(None)

MainNext ==
    \/ \E p \in 1..(MaxPipelines + 1) : PipeResolve(p)
    \/ \E p \in 1..(MaxPipelines + 1) : PipeLocate(p)
    \/ \E p \in 1..(MaxPipelines + 1) : PipeMaterialize(p)
    \/ MainGatherRaises
    \/ RunCancelsTasks
    \/ MainAggregate

SpecMain == MainInit /\ [][MainNext]_vars

\* the event loop keeps running whatever is ready to run, and every request
\* attempt gets its answer or its failure
FairSpecMain == SpecMain /\ WF_vars(MainNext)

(***************************************************************************)
(* Properties of the batch run (SpecMain).                                 *)
(***************************************************************************)
\* the summary the request asks for: one entry for each pair whose own task
\* returned an image, with that image, in request order
ExpectedSummary ==
    Concat([p \in 1..Len(pipes) |->
               IF pipes[p].out.val # EmptyDict
               THEN <<[artist |-> pipes[p].artist, album |-> pipes[p].album,
                       highest_resolution_image |-> pipes[p].out.val]>>
               ELSE << >>])

\* C1: once all pipelines have completed, the summary built by main holds
\* exactly one entry for each (artist, album) pair whose own pipeline returned
\* an image, with that pair's own winner, in request order, and no entry for
\* the other pairs.
C1_SummaryPerPair ==
    pc = "done" => highest_res_images = ExpectedSummary

\* C2: whatever fails upstream, no failure inside an album's pipeline leaves
\* main: the batch run does not end with an exception.
C2_NoFailureLeavesMain ==
    pc # "raised"

\* the task of the pair has ended by returning or by re-raising the
\* exception of the last attempt of a request
Finished(pipe) ==
    /\ pipe.st = "done"
    /\ pipe.out.kind = "ret" \/ pipe.out.exc # CancelledError

\* C19: every pipeline that was launched ends by returning a result or with
\* the error of a request that used up its attempts: when the batch has
\* ended, after which nothing runs any more, no pipeline is left that has
\* not finished in one of these two ways.
C19_EveryPipelineFinishes ==
    pc \in {"done", "exited"} => \A p \in 1..Len(pipes) : Finished(pipes[p])

(***************************************************************************)
(* One album pipeline, request by request: process_artist_album driving    *)
(* the resolver, the locator and the materializer in turn.  The variables  *)
(* of a stage keep the values the stage left when the next one runs.       *)
(***************************************************************************)
\* the configurations of a run for one album: the two filters, set or not,
\* and the two flags
AlbumConfigs ==
    {[artists_albums |-> <<[artist |-> "A", albums |-> <<"x">>]>>,
      release_type |-> rt, status |-> s, save_images |-> save,
      output_dir |-> <<"out">>, skip_existing |-> skip] :
        rt \in {NoFilter, "Album"}, s \in {NoFilter, "Official"},
        save \in BOOLEAN, skip \in BOOLEAN}

\* the largest count the catalog reports for the album
MaxAlbumCount == MaxAlbumExtraPages * Limit + 1

\* line 233: the task has been started and awaits get_release_groups
AlbumInit ==
    /\ config \in AlbumConfigs
    /\ pipes = <<NewPipe(Pairs(config.artists_albums)[1])>>
    /\ highest_res_images = Unused /\ summary = Unused
    /\ pc = "initial"
    /\ tasks = <<NewTask(0)>>
    /\ results = << >>
    /\ ret = None
    /\ total_count = 0
    /\ release_groups = << >>
    /\ release_ids = Unused
    /\ urls = Unused /\ save_path = Unused /\ skip_existing = Unused /\ fs = Unused
    /\ prev_details = Unused

\* lines 233-255: get_release_groups has returned; the groups are filtered,
\* the release ids are listed and get_cover_art_urls launches its queries
AlbumResolved ==
    /\ pipes[1].st = "resolve"
    /\ pc = "returned"
    /\ LET groups == FilterType(ret.val, config.release_type)
           ids == ReleaseIds(groups, config.status)
       IN  IF groups = << >>
           THEN /\ pipes' = <<PipeDone(pipes[1], Ret(EmptyDict))>>
                /\ pc' = "done"
                /\ ret' = Ret(EmptyDict)
                /\ UNCHANGED <<tasks, results, locatorVars>>
           ELSE /\ pipes' = <<[pipes[1] EXCEPT !.st = "locate", !.release_ids = ids]>>
                /\ release_ids' = ids
                /\ tasks' = [i \in 1..Len(ids) |-> NewTask(ids[i])]
                /\ results' = << >>
                /\ pc' = "locating"
                /\ ret' = None
    /\ UNCHANGED <<resolverVars, materializerVars, config, highest_res_images, summary>>

\* lines 257-277: get_cover_art_urls has returned; the URLs are flattened
\* and find_image_details launches its downloads
AlbumLocated ==
    /\ pipes[1].st = "locate"
    /\ pc = "returned"
    /\ LET all_cover_art_urls == AllCoverArtUrls(ret.val)
           album_dir == Join(Join(config.output_dir, pipes[1].artist), pipes[1].album)
       IN  IF all_cover_art_urls = << >>
           THEN /\ pipes' = <<PipeDone(pipes[1], Ret(EmptyDict))>>
                /\ pc' = "done"
                /\ ret' = Ret(EmptyDict)
                /\ UNCHANGED <<tasks, results, materializerVars>>
           ELSE /\ pipes' = <<[pipes[1] EXCEPT !.st = "materialize",
                                               !.urls = all_cover_art_urls]>>
                /\ urls' = all_cover_art_urls
                /\ save_path' = IF config.save_images THEN album_dir ELSE NoPath
                /\ skip_existing' = config.skip_existing
                /\ fs' \in IF save_path' = NoPath THEN {<< >>}
                                                 ELSE InitialFiles(save_path')
                /\ prev_details' = << >>
                /\ tasks' = [i \in 1..Len(all_cover_art_urls) |->
                                NewImageTask(all_cover_art_urls[i])]
                /\ results' = << >>
                /\ pc' = "materializing"
                /\ ret' = None
    /\ UNCHANGED <<resolverVars, locatorVars, config, highest_res_images, summary>>

\* a pick of the last element of the list
WinnerLast(sorted_image_details) ==
    IF sorted_image_details # << >>
    THEN sorted_image_details[Len(sorted_image_details)] ELSE EmptyDict

\* line 289: sorted_image_details[0] if sorted_image_details else {}
Winner(sorted_image_details) ==
    IF sorted_image_details # << >> THEN sorted_image_details[1] ELSE EmptyDict

\* lines 279-289: find_image_details has returned; the metadata is saved
\* and the head of the list, if any, is returned
AlbumMaterialized ==
    /\ pipes[1].st = "materialize"
    /\ pc = "returned"
    /\ LET sorted_image_details == ret.val
           winner == Winner(sorted_image_details)
       IN  /\ pipes' = <<[PipeDone(pipes[1], Ret(winner))
                             EXCEPT !.cover_art_images = sorted_image_details]>>
           /\ ret' = Ret(winner)
    /\ pc' = "done"
    /\ UNCHANGED <<tasks, results, resolverVars, locatorVars, materializerVars>>
    /\ UNCHANGED <<config, highest_res_images, summary>>

\* an exception that left the stage being awaited leaves process_artist_album
AlbumRaised ==
    /\ pipes[1].st # "done"
    /\ pc = "raised"
    /\ pipes' = <<PipeDone(pipes[1], ret)>>
    /\ pc' = "done"
    /\ UNCHANGED <<tasks, results, ret, resolverVars, locatorVars, materializerVars>>
    /\ UNCHANGED <<config, highest_res_images, summary>>

\* the steps of the resolver for an album of at most MaxAlbumCount matches
AlbumResolverNext ==
    /\ ResolverNext
    /\ total_count' <= MaxAlbumCount

AlbumNext ==
    \/ AlbumResolverNext
    \/ AlbumResolved
    \/ LocatorNext
    \/ AlbumLocated
    \/ MaterializerNext
    \/ AlbumMaterialized
    \/ AlbumRaised

SpecAlbum == AlbumInit /\ [][AlbumNext]_vars

(***************************************************************************)
(* Properties of one album pipeline (SpecAlbum).                           *)
(***************************************************************************)
\* the query of a release id ended on an answer with a status other than 200
NonOkAnswered(t) ==
    /\ t.st = "done"
    /\ t.hist # << >>
    /\ t.hist[Len(t.hist)] = "status"

\* the front-cover URLs in the answers the queries of the album got
AnsweredFrontUrls ==
    UNION {LET images == Get(tasks[i].out.val, "images", << >>)
           IN  {images[j]["image"] : j \in FrontIndexes(images)} :
             i \in {k \in 1..Len(tasks) : tasks[k].out.kind = "ret"}}

\* C14: when the art archive answers the query of one release id with a
\* status other than 200 (503 among them), that id is collected with an empty
\* URL list and the locate call goes on; the album's URL list holds every
\* front-cover URL the sibling ids were answered and nothing else, one
\* download is launched per URL, and the album ends with the ranked details
\* of the images decoded for these URLs and the head of that list as winner.
C14_NonOkReleaseLeavesSiblings ==
    /\ [][(pipes[1].st = "locate" /\ pipes'[1].st = "locate") =>
            \A i \in 1..Len(tasks) :
                (tasks[i].st # "done" /\ NonOkAnswered(tasks'[i])) =>
                    /\ results' = Append(results, <<tasks[i].arg, << >>>>)
                    /\ pc' = "locating"]_vars
    /\ [][(pipes[1].st = "locate" /\ pc = "returned") =>
            IF AnsweredFrontUrls = {}
            THEN pipes'[1].st = "done" /\ pipes'[1].out = Ret(EmptyDict)
            ELSE /\ pipes'[1].st = "materialize"
                 /\ Range1(urls') = AnsweredFrontUrls
                 /\ Len(urls') = Cardinality(AnsweredFrontUrls)
                 /\ pipes'[1].urls = urls'
                 /\ tasks' = [k \in 1..Len(urls') |-> NewImageTask(urls'[k])]]_vars
    /\ [](pipes[1].st = "done" /\ pipes[1].out.kind = "ret" /\ pipes[1].urls # << >>
            => LET ranked == pipes[1].cover_art_images
               IN  /\ \A k \in 1..(Len(ranked) - 1) :
                        ranked[k].resolution >= ranked[k + 1].resolution
                   /\ \A k \in 1..Len(ranked) : ranked[k].url \in Range1(pipes[1].urls)
                   /\ \A i \in 1..Len(tasks) :
                        Decoded(tasks[i]) =>
                            \E k \in 1..Len(ranked) : ranked[k] = tasks[i].out.val
                   /\ pipes[1].out.val
                        = IF ranked # << >> THEN ranked[1] ELSE EmptyDict)

C14_Witness ==
    /\ pipes[1].st = "locate"
    /\ pc = "returned"
    /\ \E i, k \in 1..Len(tasks) :
         /\ i # k
         /\ NonOkAnswered(tasks[i])
         /\ <<tasks[i].arg, << >>>> \in Range1(ret.val)
         /\ <<tasks[k].arg, <<ArtUrl(tasks[k].arg, "front.jpg")>>>> \in Range1(ret.val)

\* the album is still at its catalog requests, or ended on them, and the
\* first page reported a count of 0
FirstPageCountZero ==
    /\ Len(tasks) >= 1
    /\ release_ids = Unused
    /\ CountReported
    /\ total_count = 0

Candidates ==
    Concat([g \in 1..Len(release_groups) |->
               LET releases == Get(release_groups[g], "releases", << >>)
               IN  [r \in 1..Len(releases) |->
                       [group |-> release_groups[g], release |-> releases[r]]]])

\* the candidates that pass the filters that are set
Surviving ==
    {c \in 1..Len(Candidates) :
        /\ \/ config.release_type = NoFilter
           \/ /\ "primary-type" \in DOMAIN Candidates[c].group
              /\ Candidates[c].group["primary-type"] = config.release_type
        /\ \/ config.status = NoFilter
           \/ /\ "status" \in DOMAIN Candidates[c].release
              /\ Candidates[c].release["status"] = config.status}

\* C16: the release ids queried at the art archive are exactly the ids of the
\* releases the resolver returned whose group has the primary type
\* release_type (when it is set) and whose status is status (when it is set),
\* each queried once, in the order of the catalog; an unset filter excludes
\* nothing; and an album that ends without a query had no such release.
C16_QueriedIffSurvivesFilters ==
    /\ pipes[1].st = "locate" =>
          /\ Len(tasks) = Cardinality(Surviving)
          /\ \E f \in [1..Len(tasks) -> Surviving] :
               /\ \A k \in 1..(Len(tasks) - 1) : f[k] < f[k + 1]
               /\ \A k \in 1..Len(tasks) :
                    tasks[k].arg = Candidates[f[k]].release["id"]
          /\ release_ids = [k \in 1..Len(tasks) |-> tasks[k].arg]
    /\ (pipes[1].st = "done" /\ pipes[1].out.kind = "ret" /\ release_ids = Unused)
          => Surviving = {}

C16_Witness ==
    /\ pipes[1].st = "locate"
    /\ pc = "returned"
    /\ config.release_type = "Album"
    /\ Len(Candidates) = 2
    /\ Candidates[2].group["primary-type"] = "Single"
    /\ Len(tasks) = 1
    /\ tasks[1].arg = Candidates[1].release["id"]
    /\ tasks[1].hist = <<"ok">>

\* the downloads of the album that ended with the detail of a decoded image
DecodedTasks == {i \in 1..Len(tasks) : Decoded(tasks[i])}

\* C17: an album that went through its downloads and returned: when at least
\* one image was decoded, what it returns is the head of the cover_art_images
\* it saved, it is the detail of one of the decoded images and no decoded
\* image of the album has a larger resolution; when none was decoded, it
\* returns the empty result and the saved list is empty.
C17_WinnerIsHeadAndLargest ==
    (pipes[1].st = "done" /\ pipes[1].out.kind = "ret" /\ pipes[1].urls # << >>) =>
        IF DecodedTasks # {}
        THEN /\ pipes[1].cover_art_images # << >>
             /\ pipes[1].out.val = pipes[1].cover_art_images[1]
             /\ \E i \in DecodedTasks : pipes[1].out.val = tasks[i].out.val
             /\ \A i \in DecodedTasks :
                  pipes[1].out.val.resolution >= tasks[i].out.val.resolution
        ELSE /\ pipes[1].out.val = EmptyDict
             /\ pipes[1].cover_art_images = << >>

C17_Witness ==
    /\ pipes[1].st = "done"
    /\ pipes[1].out.kind = "ret"
    /\ Len(pipes[1].cover_art_images) = 2
    /\ pipes[1].cover_art_images[1].dimensions = <<2, 2>>
    /\ pipes[1].cover_art_images[2].dimensions = <<1, 2>>
    /\ results[1] = pipes[1].cover_art_images[2]
    /\ pipes[1].out.val = pipes[1].cover_art_images[1]

\* no attempt of the sub-task has been made
NotAttempted(t) == t.st = "ready" /\ t.hist = << >>

\* C18: the stages of an album run one after the other: the page requests
\* beyond the first exist only once the first has completed; the queries of
\* the art archive are launched only when every page request has completed,
\* and the downloads only when every query has completed; the sub-tasks of a
\* stage are all launched in one step, before any of them has made an
\* attempt or been collected, and none is added while the stage runs.
C18_StagesInSequence ==
    /\ [](pc = "initial" => Len(tasks) = 1)
    /\ []((pipes[1].st = "resolve" /\ Len(tasks) > 1) => tasks[1].st = "done")
    /\ [][(pc = "initial" /\ pc' # "initial") =>
            /\ tasks'[1].st = "done"
            /\ results' = << >>
            /\ \A i \in 2..Len(tasks') : NotAttempted(tasks'[i])]_vars
    /\ [][(pipes'[1].st # pipes[1].st /\ pipes'[1].st # "done") =>
            /\ <<pipes[1].st, pipes'[1].st>>
                   \in {<<"resolve", "locate">>, <<"locate", "materialize">>}
            /\ \A i \in 1..Len(tasks) : tasks[i].st = "done"
            /\ results' = << >>
            /\ \A i \in 1..Len(tasks') : NotAttempted(tasks'[i])]_vars
    /\ [][(pipes'[1].st = pipes[1].st /\ pc # "initial") =>
            /\ Len(tasks') = Len(tasks)
            /\ \A i \in 1..Len(tasks) : tasks'[i].arg = tasks[i].arg]_vars

C18_Witness ==
    /\ pipes[1].st = "materialize"
    /\ total_count > Limit
    /\ Len(release_ids) = 2
    /\ Len(tasks) = 2
    /\ \E i, k \in 1..Len(tasks) :
         tasks[i].st = "done" /\ tasks[k].st # "done" /\ tasks[k].hist # << >>

====
